---- MODULE Spec2Model ----
(***************************************************************************)
(* Model of ConnectionTabsService (services/Connections): the connection   *)
(* and content tab stores, their hydration from the persisted blob store   *)
(* ".connections.dat", and the debounced persistence write.                *)
(*                                                                         *)
(* JavaScript objects are records; a property that is missing from an      *)
(* object is a field that is missing from the record.  The value           *)
(* `undefined` held by a present property is the record Undefined.         *)
(***************************************************************************)
EXTENDS Integers, Sequences, FiniteSets, TLC

\* ---------------------------------------------------------------- bounds
MaxIds == 2          \* distinct connection ids
MaxContent == 2      \* content tabs in a saved content store
MaxWriters == 1      \* persistence writes in flight at once

\* ------------------------------------------------------------- constants
CONNECTIONS_TABS_KEY == "_conn_tabs"
CONTENT_TABS_KEY == "_content_tabs"

MessageType == {"error", "info", "success", "warning"}

ContentComponent == [QueryTab |-> "QueryTab", TableStructureTab |-> "TableStructureTab"]

NEW_QUERY_TAB ==
  [label |-> "Query",
   data |-> [query |-> "", results |-> <<>>],
   key |-> ContentComponent.QueryTab]

\* the value `undefined` stored under a property that is present
Undefined == [undefined |-> TRUE]

\* --------------------------------------------------------- data universe
Ids == 1..MaxIds
Labels == {"A", "B"}

\* ConnectionTab: schema and connection are opaque payload carried with label.
\* Every id has a tab labelled "A"; id 1 also has one labelled "B" (the same
\* connection opened again with other details).
ConnectionTab == [id : Ids, label : {"A"}] \cup [id : {1}, label : Labels]

\* ContentTabData["QueryTab"]
QueryTabData ==
  {[query |-> "", results |-> <<>>], [query |-> "q1", results |-> <<"r1">>]}

\* ContentTabData["TableStructureTab"]
TableStructureTabData ==
  {[table |-> "t1", structure |-> <<"s1">>, indices |-> <<>>,
    foreignKeys |-> <<>>, triggers |-> <<>>]}

\* the error property of a ContentTab, when it holds a message
ErrorValue == [type : {"error"}, message : {"m1"}]

\* ContentTab without / with the optional error property
ContentTabPlain ==
  [label : {"Query"}, key : {ContentComponent.QueryTab}, data : QueryTabData]
    \cup [label : {"Table"}, key : {ContentComponent.TableStructureTab},
          data : TableStructureTabData]

ContentTabWithError ==
  [label : {"Query"}, key : {ContentComponent.QueryTab}, data : QueryTabData,
   error : ErrorValue]
    \cup [label : {"Table"}, key : {ContentComponent.TableStructureTab},
          data : TableStructureTabData, error : ErrorValue]

ContentTabOption == ContentTabPlain \cup ContentTabWithError

\* ------------------------------------------------------------- sequences
SeqsUpTo(S, n) == UNION {[1..k -> S] : k \in 0..n}

UniqueIds(tabs) ==
  \A i, j \in 1..Len(tabs) : tabs[i].id = tabs[j].id => i = j

\* ------------------------------------------------- JSON.stringify / parse
\* a serializer that leaves the error property out of every tab
StringifyTab_DropError(t) == [k \in DOMAIN t \ {"error"} |-> t[k]]

\* JSON.stringify omits a property whose value is undefined
StringifyTab(t) ==
  IF "error" \in DOMAIN t /\ t.error = Undefined
  THEN [k \in DOMAIN t \ {"error"} |-> t[k]]
  ELSE t

\* the JSON text of a store: the tree of what JSON.stringify emits
Stringify(st) ==
  [json |-> [tabs |-> [i \in 1..Len(st.tabs) |-> StringifyTab(st.tabs[i])],
             idx |-> st.idx]]

Parse(str) == str.json

\* values of the blob store: store.get gives null for a missing key
Null == [null |-> TRUE]
Garbage == [garbage |-> TRUE]
IsJson(v) == "json" \in DOMAIN v

\* getSavedData's defaultValue, the empty array []
DefaultValue == [length |-> 0]

getSavedData(str) ==
  IF str = Null THEN DefaultValue
  ELSE IF IsJson(str) THEN Parse(str)
  ELSE DefaultValue

\* Solid's setStore(fn) at the root merges the enumerable keys of the
\* returned object into the store
MergeStore(prev, value) ==
  [k \in DOMAIN prev |->
     IF k \in DOMAIN value \ {"length"} THEN value[k] ELSE prev[k]]

\* ------------------------------------------------ persisted blobs at start
\* stores an earlier session of the service can have saved
SavedConnectionStores ==
  UNION {{[tabs |-> ts, idx |-> i] : i \in 0..Len(ts)} :
           ts \in {s \in SeqsUpTo(ConnectionTab, MaxIds) : UniqueIds(s)}}

SavedContentStores ==
  UNION {{[tabs |-> ts, idx |-> i] : i \in 0..(IF Len(ts) = 0 THEN 0 ELSE Len(ts) - 1)} :
           ts \in SeqsUpTo(ContentTabOption, MaxContent)}

SavedBlobs(stores) == {Null, Garbage} \cup {Stringify(st) : st \in stores}

\* the saved stores the slices of the state space start from
LabelA(st) == \A i \in 1..Len(st.tabs) : st.tabs[i].label = "A"
FreshOnly(st) == \A i \in 1..Len(st.tabs) : st.tabs[i] = NEW_QUERY_TAB

ConnBlobsA == SavedBlobs({st \in SavedConnectionStores : LabelA(st)})
ConnBlobsFew == {Stringify(st) : st \in {st \in SavedConnectionStores :
                                            LabelA(st) /\ st.idx = Len(st.tabs) /\ UniqueIds(st.tabs)
                                            /\ \A i \in 1..Len(st.tabs) : st.tabs[i].id = i}}
ContentBlobsAll == SavedBlobs(SavedContentStores)
ContentBlobsFew ==
  {Null} \cup {Stringify(st) : st \in {st \in SavedContentStores :
                                       FreshOnly(st) /\ Len(st.tabs) = MaxContent
                                       /\ st.idx = MaxContent - 1}}

VARIABLES
  connectionStore,   \* createStore<ConnectionStore>
  contentStore,      \* createStore<ContentStore>
  blob,              \* contents of the Store(".connections.dat")
  hpc,               \* position of the onMount hydration
  conn_tabs,         \* hydration: the value read for "_conn_tabs"
  hk,                \* hydration: number of saved tabs the fold has consumed
  inflight,          \* hydration: positions whose init_connection is pending
  acc,               \* hydration: the fold's accumulator
  content,           \* hydration: the value read for "_content_tabs"
  failed,            \* history: positions whose init_connection failed
  timer,             \* debounce: "idle" or "armed"
  calls,             \* history: updateStore() calls since the timer last fired: 0, 1, or 2 for two and more
  atCall,            \* history: both stores, serialized, as the latest updateStore() call left them
  writers,           \* persistence writes in flight
  cleared,           \* history: clearStore has completed and no operation has changed a store since
  last               \* history: the operation that made the latest step

vars == <<connectionStore, contentStore, blob, hpc, conn_tabs, hk, inflight, acc,
          content, failed, timer, calls, atCall, writers, cleared, last>>

storeVars == <<connectionStore, contentStore>>
hydVars == <<hpc, conn_tabs, hk, inflight, acc, content, failed>>
writeVars == <<timer, calls, atCall, writers, cleared>>

EmptyStore == [tabs |-> <<>>, idx |-> 0]

InitWith(connBlobs, contentBlobs) ==
  /\ connectionStore = EmptyStore
  /\ contentStore = EmptyStore
  /\ \E c \in connBlobs, t \in contentBlobs :
       blob = (CONNECTIONS_TABS_KEY :> c) @@ (CONTENT_TABS_KEY :> t)
  /\ hpc = "start"
  /\ conn_tabs = DefaultValue
  /\ hk = 0
  /\ inflight = {}
  /\ acc = <<>>
  /\ content = DefaultValue
  /\ failed = {}
  /\ timer = "idle"
  /\ calls = 0
  /\ atCall = Null
  /\ writers = <<>>
  /\ cleared = FALSE
  /\ last = [op |-> "init", eff |-> FALSE]

Init == InitWith(SavedBlobs(SavedConnectionStores), ContentBlobsAll)

\* ------------------------------------------------------------- hydration
\* const conn_tabs = await getSavedData(CONNECTIONS_TABS_KEY); conn_tabs.tabs
\* is undefined for the default value [] and .reduce on it throws
HydrateReadConn ==
  /\ hpc = "start"
  /\ conn_tabs' = getSavedData(blob[CONNECTIONS_TABS_KEY])
  /\ hpc' = IF "tabs" \in DOMAIN conn_tabs' THEN "fold" ELSE "failed"
  /\ last' = [op |-> "hydrateReadConn", eff |-> TRUE]
  /\ UNCHANGED <<storeVars, blob, hk, inflight, acc, content, failed, writeVars>>

\* a rejected init_connection that throws the accumulator away
FoldStep_Abort(res, conn, ok) == IF ok THEN Append(res, conn) ELSE <<>>

\* one callback of the reduce: res ++ conn when init_connection resolves,
\* the accumulator as it was when it rejects
FoldStep(res, conn, ok) == IF ok THEN Append(res, conn) ELSE res

\* a map that starts every callback's init_connection without awaiting the
\* callback before it
CanInvoke_NoAwait(p, done, pending) == p > done /\ p \notin pending

\* const res = await acc: the callback of position p goes on to invoke
\* init_connection once the promise of the callback before it is resolved
CanInvoke(p, done, pending) == p = done + 1 /\ p \notin pending

\* invoke("init_connection", { config: conn.connection }) is called
HydrateInvokeStart(p) ==
  /\ hpc = "fold"
  /\ p \in 1..Len(conn_tabs.tabs)
  /\ CanInvoke(p, hk, inflight)
  /\ inflight' = inflight \cup {p}
  /\ last' = [op |-> "hydrateInvokeStart", eff |-> TRUE]
  /\ UNCHANGED <<storeVars, blob, hpc, conn_tabs, hk, acc, content, failed, writeVars>>

\* the pending init_connection resolves (ok) or rejects
HydrateInvoke(ok) ==
  /\ hpc = "fold"
  /\ hk < Len(conn_tabs.tabs)
  /\ hk + 1 \in inflight
  /\ inflight' = inflight \ {hk + 1}
  /\ hk' = hk + 1
  /\ acc' = FoldStep(acc, conn_tabs.tabs[hk + 1], ok)
  /\ failed' = IF ok THEN failed ELSE failed \cup {hk + 1}
  /\ last' = [op |-> "hydrateInvoke", eff |-> ok]
  /\ UNCHANGED <<storeVars, blob, hpc, conn_tabs, content, writeVars>>

\* setConnectionStore(() => ({ ...conn_tabs, tabs }))
HydrateSetConn ==
  /\ hpc = "fold"
  /\ hk = Len(conn_tabs.tabs)
  /\ connectionStore' = MergeStore(connectionStore, [conn_tabs EXCEPT !.tabs = acc])
  /\ hpc' = "content"
  /\ last' = [op |-> "hydrateSetConn", eff |-> TRUE]
  /\ UNCHANGED <<contentStore, blob, conn_tabs, hk, inflight, acc, content, failed, writeVars>>

\* const content = await getSavedData(CONTENT_TABS_KEY)
HydrateReadContent ==
  /\ hpc = "content"
  /\ content' = getSavedData(blob[CONTENT_TABS_KEY])
  /\ hpc' = "setContent"
  /\ last' = [op |-> "hydrateReadContent", eff |-> TRUE]
  /\ UNCHANGED <<storeVars, blob, conn_tabs, hk, inflight, acc, failed, writeVars>>

\* setContentStore(() => content as ContentStore)
HydrateSetContent ==
  /\ hpc = "setContent"
  /\ contentStore' = MergeStore(contentStore, content)
  /\ hpc' = "done"
  /\ last' = [op |-> "hydrateSetContent", eff |-> TRUE]
  /\ UNCHANGED <<connectionStore, blob, conn_tabs, hk, inflight, acc, content, failed, writeVars>>

\* ------------------------------------------------- debounced updateStore
\* a debounce that does not start the timer on a call
DebounceCall_NoStart(t) == t

\* debounce(fn, wait): a call (re)starts the timer; fn runs once when the
\* timer expires
DebounceCall(t) == "armed"

Snapshot(connSt, contSt) == [conn |-> Stringify(connSt), content |-> Stringify(contSt)]

\* the payload of store.set(CONNECTIONS_TABS_KEY, JSON.stringify(connectionStore))
ConnPayload(connSt) == Stringify(connSt)

\* the payload of store.set(CONTENT_TABS_KEY, JSON.stringify(contentStore))
ContentPayload(contSt) == Stringify(contSt)

\* history: a write that has not yet issued its second store.set notes the
\* content store of every moment at which the connection store is still the
\* one it serialized
Observe(ws, connSt, contSt) ==
  [w \in 1..Len(ws) |->
     IF ws[w].pc = "setConn" /\ ConnPayload(connSt) = ws[w].payload
     THEN [ws[w] EXCEPT !.seen = @ \cup {ContentPayload(contSt)}]
     ELSE ws[w]]

\* updateStore(), called last by an operation
ScheduleWrite ==
  /\ timer' = DebounceCall(timer)
  /\ calls' = IF calls < 2 THEN calls + 1 ELSE 2
  /\ atCall' = Snapshot(connectionStore', contentStore')
  /\ cleared' = FALSE
  /\ writers' = Observe(writers, connectionStore', contentStore')

\* the timer expires: the debounced function starts and issues the first
\* store.set with the connection store as it is now
TimerFire ==
  /\ timer = "armed"
  /\ Len(writers) < MaxWriters
  /\ timer' = "idle"
  /\ calls' = 0
  /\ writers' = Append(writers, [pc |-> "setConn",
                                 payload |-> ConnPayload(connectionStore),
                                 atFire |-> Stringify(contentStore),
                                 seen |-> {ContentPayload(contentStore)},
                                 n |-> calls])
  /\ last' = [op |-> "timerFire", eff |-> TRUE]
  /\ UNCHANGED <<storeVars, blob, hydVars, atCall, cleared>>

\* await store.set(CONNECTIONS_TABS_KEY, ...) resolves; the function goes on
\* to issue the second store.set with the content store as it is now
WriteSetConn(w) ==
  /\ writers[w].pc = "setConn"
  /\ blob' = [blob EXCEPT ![CONNECTIONS_TABS_KEY] = writers[w].payload]
  /\ writers' = [writers EXCEPT ![w].pc = "setContent",
                                 ![w].payload = ContentPayload(contentStore)]
  /\ last' = [op |-> "writeSetConn", eff |-> TRUE]
  /\ UNCHANGED <<storeVars, hydVars, timer, calls, atCall, cleared>>

\* await store.set(CONTENT_TABS_KEY, ...) resolves
WriteSetContent(w) ==
  /\ writers[w].pc = "setContent"
  /\ blob' = [blob EXCEPT ![CONTENT_TABS_KEY] = writers[w].payload]
  /\ writers' = [writers EXCEPT ![w] = [pc |-> "save", payload |-> Null, atFire |-> Null,
                                        seen |-> {}, n |-> 0]]
  /\ last' = [op |-> "writeSetContent", eff |-> TRUE]
  /\ UNCHANGED <<storeVars, hydVars, timer, calls, atCall, cleared>>

\* await store.save() resolves: the write is finished
WriteSave(w) ==
  /\ writers[w].pc = "save"
  /\ writers' = [i \in 1..(Len(writers) - 1) |->
                   IF i < w THEN writers[i] ELSE writers[i + 1]]
  /\ last' = [op |-> "writeSave", eff |-> TRUE]
  /\ UNCHANGED <<storeVars, blob, hydVars, timer, calls, atCall, cleared>>

\* ------------------------------------------------------------ operations
\* a find that compares whole tabs instead of ids
FindTab_ByValue(tabs, tab) == \E i \in 1..Len(tabs) : tabs[i] = tab

\* connectionStore.tabs.find((t) => t.id === tab.id)
FindTab(tabs, tab) == \E i \in 1..Len(tabs) : tabs[i].id = tab.id

\* an addTab that selects the existing tab when the id is already there
addTab_SelectExisting(tab) ==
  IF FindTab(connectionStore.tabs, tab)
  THEN /\ connectionStore' =
            [connectionStore EXCEPT !.idx =
               CHOOSE i \in 1..Len(connectionStore.tabs) :
                 connectionStore.tabs[i].id = tab.id]
       /\ UNCHANGED contentStore
       /\ last' = [op |-> "addTab", eff |-> FALSE]
       /\ UNCHANGED <<blob, hydVars, writeVars>>
  ELSE /\ connectionStore' =
            [tabs |-> Append(connectionStore.tabs, tab),
             idx |-> Len(connectionStore.tabs) + 1]
       /\ contentStore' = [contentStore EXCEPT !.tabs = <<NEW_QUERY_TAB>>]
       /\ ScheduleWrite
       /\ last' = [op |-> "addTab", eff |-> TRUE]
       /\ UNCHANGED <<blob, hydVars>>

\* an addTab that reads the length before it appends
addTab_StaleLength(tab) ==
  IF FindTab(connectionStore.tabs, tab)
  THEN /\ last' = [op |-> "addTab", eff |-> FALSE]
       /\ UNCHANGED <<storeVars, blob, hydVars, writeVars>>
  ELSE /\ connectionStore' =
            [tabs |-> Append(connectionStore.tabs, tab),
             idx |-> Len(connectionStore.tabs)]
       /\ contentStore' = [contentStore EXCEPT !.tabs = <<NEW_QUERY_TAB>>]
       /\ ScheduleWrite
       /\ last' = [op |-> "addTab", eff |-> TRUE]
       /\ UNCHANGED <<blob, hydVars>>

addTab(tab) ==
  IF FindTab(connectionStore.tabs, tab)
  THEN /\ last' = [op |-> "addTab", eff |-> FALSE]
       /\ UNCHANGED <<storeVars, blob, hydVars, writeVars>>
  ELSE /\ connectionStore' =
            [tabs |-> Append(connectionStore.tabs, tab),
             idx |-> Len(connectionStore.tabs) + 1]
       /\ contentStore' = [contentStore EXCEPT !.tabs = <<NEW_QUERY_TAB>>]
       /\ ScheduleWrite
       /\ last' = [op |-> "addTab", eff |-> TRUE]
       /\ UNCHANGED <<blob, hydVars>>

\* a removeTab that takes the id for the position of the tab
removeTab_ByPosition(id) ==
  /\ connectionStore' =
       [tabs |-> [j \in 1..(Len(connectionStore.tabs) -
                            (IF id \in 1..Len(connectionStore.tabs) THEN 1 ELSE 0)) |->
                    IF j < id THEN connectionStore.tabs[j]
                    ELSE connectionStore.tabs[j + 1]],
        idx |-> 0]
  /\ UNCHANGED contentStore
  /\ ScheduleWrite
  /\ last' = [op |-> "removeTab",
              eff |-> \E i \in 1..Len(connectionStore.tabs) :
                        connectionStore.tabs[i].id = id]
  /\ UNCHANGED <<blob, hydVars>>

\* a removeTab that keeps the cursor when it still points inside the tabs
removeTab_KeepCursor(id) ==
  /\ connectionStore' =
       [tabs |-> SelectSeq(connectionStore.tabs, LAMBDA t : t.id # id),
        idx |-> IF connectionStore.idx <= Len(SelectSeq(connectionStore.tabs, LAMBDA t : t.id # id))
                THEN connectionStore.idx ELSE 0]
  /\ UNCHANGED contentStore
  /\ ScheduleWrite
  /\ last' = [op |-> "removeTab",
              eff |-> \E i \in 1..Len(connectionStore.tabs) : connectionStore.tabs[i].id = id]
  /\ UNCHANGED <<blob, hydVars>>

removeTab(id) ==
  /\ connectionStore' =
       [tabs |-> SelectSeq(connectionStore.tabs, LAMBDA t : t.id # id),
        idx |-> 0]
  /\ UNCHANGED contentStore
  /\ ScheduleWrite
  /\ last' = [op |-> "removeTab",
              eff |-> \E i \in 1..Len(connectionStore.tabs) : connectionStore.tabs[i].id = id]
  /\ UNCHANGED <<blob, hydVars>>

\* a clearStore that deletes the connection tabs key only
clearStore_OneKey ==
  /\ blob' = [blob EXCEPT ![CONNECTIONS_TABS_KEY] = Null]
  /\ cleared' = TRUE
  /\ last' = [op |-> "clearStore", eff |-> TRUE]
  /\ UNCHANGED <<storeVars, hydVars, timer, calls, atCall, writers>>

\* await store.clear()
clearStore ==
  /\ blob' = [k \in DOMAIN blob |-> Null]
  /\ cleared' = TRUE
  /\ last' = [op |-> "clearStore", eff |-> TRUE]
  /\ UNCHANGED <<storeVars, hydVars, timer, calls, atCall, writers>>

\* array[i] of JavaScript: undefined outside 0..length-1
At(tabs, i) == IF i \in 0..(Len(tabs) - 1) THEN tabs[i + 1] ELSE Undefined

getActiveConnection == At(connectionStore.tabs, connectionStore.idx - 1)

getActiveContentTab == At(contentStore.tabs, contentStore.idx)

\* contentStore.tabs.map((t, i) => i === contentStore.idx ? changed : t)
MapActive(tabs, idx, changed) ==
  [i \in 1..Len(tabs) |-> IF i - 1 = idx THEN changed ELSE tabs[i]]

\* { ...t, name: value }
Spread(t, name, value) ==
  [k \in DOMAIN t \cup {name} |-> IF k = name THEN value ELSE t[k]]

\* a spread that also stamps the Query key on the tab
WithData_SetKey(t, data) ==
  Spread(Spread(t, "data", data), "key", ContentComponent.QueryTab)

\* { ...t, data }
WithData(t, data) == Spread(t, "data", data)

\* a setActiveContentQueryTabData whose map ignores the index
setActiveContentQueryTabData_AllTabs(data) ==
  /\ IF getActiveContentTab = Undefined
     THEN UNCHANGED contentStore
     ELSE contentStore' =
            [contentStore EXCEPT !.tabs =
               [i \in 1..Len(contentStore.tabs) |-> WithData(contentStore.tabs[i], data)]]
  /\ last' = [op |-> "setActiveContentQueryTabData",
              eff |-> getActiveContentTab # Undefined]
  /\ cleared' = (cleared /\ getActiveContentTab = Undefined)
  /\ writers' = Observe(writers, connectionStore, contentStore')
  /\ UNCHANGED <<connectionStore, blob, hydVars, timer, calls, atCall>>

setActiveContentQueryTabData(data) ==
  /\ IF getActiveContentTab = Undefined
     THEN UNCHANGED contentStore
     ELSE contentStore' =
            [contentStore EXCEPT !.tabs =
               MapActive(contentStore.tabs, contentStore.idx,
                         WithData(getActiveContentTab, data))]
  /\ last' = [op |-> "setActiveContentQueryTabData",
              eff |-> getActiveContentTab # Undefined]
  /\ cleared' = (cleared /\ getActiveContentTab = Undefined)
  /\ writers' = Observe(writers, connectionStore, contentStore')
  /\ UNCHANGED <<connectionStore, blob, hydVars, timer, calls, atCall>>

resetActiveContentQueryTabMessage ==
  /\ IF getActiveContentTab = Undefined
     THEN UNCHANGED contentStore
     ELSE contentStore' =
            [contentStore EXCEPT !.tabs =
               MapActive(contentStore.tabs, contentStore.idx,
                         Spread(getActiveContentTab, "error", Undefined))]
  /\ last' = [op |-> "resetActiveContentQueryTabMessage",
              eff |-> getActiveContentTab # Undefined]
  /\ cleared' = (cleared /\ getActiveContentTab = Undefined)
  /\ writers' = Observe(writers, connectionStore, contentStore')
  /\ UNCHANGED <<connectionStore, blob, hydVars, timer, calls, atCall>>

\* a setActiveContentQueryTabMessage that opens a Query tab for the message
\* when none is active
setActiveContentQueryTabMessage_Create(type, message) ==
  /\ IF getActiveContentTab = Undefined
     THEN contentStore' =
            [tabs |-> <<Spread(NEW_QUERY_TAB, "error",
                               [type |-> type, message |-> message])>>,
             idx |-> 0]
     ELSE contentStore' =
            [contentStore EXCEPT !.tabs =
               MapActive(contentStore.tabs, contentStore.idx,
                         Spread(getActiveContentTab, "error",
                                [type |-> type, message |-> message]))]
  /\ last' = [op |-> "setActiveContentQueryTabMessage",
              eff |-> getActiveContentTab # Undefined]
  /\ cleared' = (cleared /\ getActiveContentTab = Undefined)
  /\ writers' = Observe(writers, connectionStore, contentStore')
  /\ UNCHANGED <<connectionStore, blob, hydVars, timer, calls, atCall>>

setActiveContentQueryTabMessage(type, message) ==
  /\ IF getActiveContentTab = Undefined
     THEN UNCHANGED contentStore
     ELSE contentStore' =
            [contentStore EXCEPT !.tabs =
               MapActive(contentStore.tabs, contentStore.idx,
                         Spread(getActiveContentTab, "error",
                                [type |-> type, message |-> message]))]
  /\ last' = [op |-> "setActiveContentQueryTabMessage",
              eff |-> getActiveContentTab # Undefined]
  /\ cleared' = (cleared /\ getActiveContentTab = Undefined)
  /\ writers' = Observe(writers, connectionStore, contentStore')
  /\ UNCHANGED <<connectionStore, blob, hydVars, timer, calls, atCall>>

Hydrate ==
  \/ HydrateReadConn
  \/ \E p \in 1..MaxIds : HydrateInvokeStart(p)
  \/ \E ok \in BOOLEAN : HydrateInvoke(ok)
  \/ HydrateSetConn
  \/ HydrateReadContent
  \/ HydrateSetContent

Write ==
  \/ TimerFire
  \/ \E w \in 1..Len(writers) : WriteSetConn(w)
  \/ \E w \in 1..Len(writers) : WriteSetContent(w)
  \/ \E w \in 1..Len(writers) : WriteSave(w)

ContentOps ==
  \/ \E data \in QueryTabData : setActiveContentQueryTabData(data)
  \/ resetActiveContentQueryTabMessage
  \/ \E e \in ErrorValue : setActiveContentQueryTabMessage(e.type, e.message)

Next ==
  \/ Hydrate
  \/ Write
  \/ \E tab \in ConnectionTab : addTab(tab)
  \/ \E id \in Ids : removeTab(id)
  \/ clearStore
  \/ ContentOps

\* the whole service, from any saved session
Spec == Init /\ [][Next]_vars

\* The product of the in-memory stores, the blobs and the writes in flight is
\* too large to enumerate, so the properties are examined on three slices of
\* Next.  A slice keeps every action that changes the variables its
\* properties read and starts from the saved blobs that matter to them.

\* connection tabs: hydration, addTab and removeTab
NextTabs ==
  \/ Hydrate
  \/ \E tab \in ConnectionTab : addTab(tab)
  \/ \E id \in Ids : removeTab(id)

SpecTabs == InitWith(ConnBlobsA, ContentBlobsFew) /\ [][NextTabs]_vars

\* content tabs: hydration of any saved content store and the content operations
NextContent ==
  \/ Hydrate
  \/ ContentOps

SpecContent == InitWith(ConnBlobsFew, ContentBlobsAll) /\ [][NextContent]_vars

\* content tabs next to addTab, which replaces them: a saved content store of
\* fresh tabs with the last one active, and one connection to add
NextContentAdd ==
  \/ Hydrate
  \/ ContentOps
  \/ \E tab \in {t \in ConnectionTab : t.id = 1 /\ t.label = "A"} : addTab(tab)

SpecContentAdd == InitWith(ConnBlobsFew, ContentBlobsFew) /\ [][NextContentAdd]_vars

\* persistence: the operations, the debounce timer and the write, on a first
\* launch (no saved blobs) with one connection
NextPersist ==
  \/ Write
  \/ \E tab \in {t \in ConnectionTab : t.id = 1 /\ t.label = "A"} : addTab(tab)
  \/ \E id \in {1} : removeTab(id)
  \/ clearStore
  \/ \E data \in QueryTabData : setActiveContentQueryTabData(data)

SpecPersist == InitWith({Null}, {Null}) /\ [][NextPersist]_vars

\* ------------------------------------------------------------------ C1
\* C1: in every state reached by addTab, removeTab and hydration,
\* connectionStore.tabs holds at most one tab per id.
C1_OneTabPerId == UniqueIds(connectionStore.tabs)

\* addTab was called with an id that is already there, after hydration
\* restored saved tabs
C1_Witness ==
  /\ last = [op |-> "addTab", eff |-> FALSE]
  /\ hpc = "done"
  /\ Len(connectionStore.tabs) = MaxIds

\* ------------------------------------------------------------------ C2
\* C2: after addTab(t) with an id not yet present, t is the last element of
\* connectionStore.tabs, idx is the new length, getActiveConnection() is t,
\* and idx is 1 when tabs was empty.
C2_AddTabSelectsNew ==
  [][\A tab \in ConnectionTab :
       (last'.op = "addTab" /\ addTab(tab) /\ ~FindTab(connectionStore.tabs, tab)) =>
         /\ Len(connectionStore'.tabs) = Len(connectionStore.tabs) + 1
         /\ connectionStore'.tabs[Len(connectionStore'.tabs)] = tab
         /\ connectionStore'.idx = Len(connectionStore'.tabs)
         /\ getActiveConnection' = tab
         /\ (connectionStore.tabs = <<>> => connectionStore'.idx = 1)]_vars

\* a second tab was added next to a restored one and is the active connection
C2_Witness ==
  /\ last = [op |-> "addTab", eff |-> TRUE]
  /\ Len(connectionStore.tabs) = 2
  /\ connectionStore.idx = 2
  /\ getActiveConnection = connectionStore.tabs[2]

\* ------------------------------------------------------------------ C3
\* C3: after removeTab(id), for an id that was present or not,
\* connectionStore.idx is 0 and getActiveConnection() is undefined.
C3_RemoveResetsCursor ==
  last.op = "removeTab" =>
    connectionStore.idx = 0 /\ getActiveConnection = Undefined

\* removeTab of an id that was present, leaving another tab behind
C3_Witness ==
  /\ last = [op |-> "removeTab", eff |-> TRUE]
  /\ Len(connectionStore.tabs) >= 1
  /\ connectionStore.idx = 0

\* ------------------------------------------------------------------ C4
\* C4: hydration restores exactly the saved tabs whose init_connection
\* succeeded, in save order; a failure does not abort the remaining tabs.
C4_HydrationKeepsSurvivors ==
  LET Surviving(tabs, n) ==
        LET pos == SelectSeq([i \in 1..n |-> i], LAMBDA i : i \notin failed)
        IN  [j \in 1..Len(pos) |-> tabs[pos[j]]]
  IN  /\ hpc = "fold" => acc = Surviving(conn_tabs.tabs, hk)
      /\ last.op = "hydrateSetConn" =>
           connectionStore.tabs = Surviving(conn_tabs.tabs, Len(conn_tabs.tabs))

\* the first saved tab failed and the one after it was restored
C4_Witness ==
  /\ last.op = "hydrateSetConn"
  /\ Len(conn_tabs.tabs) = MaxIds
  /\ failed = {1}
  /\ Len(connectionStore.tabs) = MaxIds - 1
  /\ connectionStore.tabs[1] = conn_tabs.tabs[2]

\* ------------------------------------------------------------------ C5
\* C5: an absent or unparsable blob is replaced by {tabs: [], idx: 0}
\* without an error, and hydration runs to completion.
C5_HydrationDefaults ==
  /\ hpc # "failed"
  /\ hpc # "start" => {"tabs", "idx"} \subseteq DOMAIN conn_tabs

\* ------------------------------------------------------------------ C6
\* C6: the updateStore() calls of one quiet window are covered by one timer,
\* whose expiry starts exactly one write; the write stores the stores as the
\* last of those calls left them, when nothing else changed them since.
C6_DebounceCoalesces ==
  [][/\ (timer' = "idle") <=> (calls' = 0)
     /\ TimerFire =>
          /\ calls >= 1
          /\ timer' = "idle" /\ calls' = 0
          /\ Len(writers') = Len(writers) + 1
          /\ Stringify(connectionStore) = atCall.conn =>
               writers'[Len(writers')].payload = atCall.conn
     /\ \A w \in 1..Len(writers) :
          /\ WriteSetConn(w) =>
               /\ blob'[CONNECTIONS_TABS_KEY] = writers[w].payload
               /\ (w = Len(writers) /\ calls = 0
                     /\ Stringify(contentStore) = atCall.content) =>
                    writers'[w].payload = atCall.content
          /\ WriteSetContent(w) =>
               blob'[CONTENT_TABS_KEY] = writers[w].payload]_vars

\* two or more calls were coalesced into one write, which has stored the
\* connection store and is about to store the content store as the last call
\* left them
C6_Witness ==
  /\ calls = 0
  /\ Len(writers) = 1
  /\ writers[1].pc = "setContent"
  /\ writers[1].n = 2
  /\ blob[CONNECTIONS_TABS_KEY] = atCall.conn
  /\ writers[1].payload = atCall.content
  /\ Len(Parse(atCall.conn).tabs) = 1

\* ------------------------------------------------------------------ C7
\* C7: every mutating operation (an effective addTab, removeTab, an
\* effective setActiveContentQueryTabData, setActiveContentQueryTabMessage or
\* resetActiveContentQueryTabMessage) schedules a debounced write of both
\* stores as it leaves them.
C7_MutationSchedulesWrite ==
  (\/ last.op = "removeTab"
   \/ /\ last.eff
      /\ last.op \in {"addTab", "setActiveContentQueryTabData",
                      "setActiveContentQueryTabMessage",
                      "resetActiveContentQueryTabMessage"})
    => /\ timer = "armed"
       /\ atCall = Snapshot(connectionStore, contentStore)

\* ------------------------------------------------------------------ C8
\* C8: a write stores both stores as they were when the timer fired.  The
\* connection payload is made in the expiry step itself; the content payload
\* is the one that could differ from the content store of the expiry.
C8_WriteSerializesAtFire ==
  \A w \in 1..Len(writers) :
    writers[w].pc = "setContent" => writers[w].payload = writers[w].atFire

\* ------------------------------------------------------------------ C9
\* C9: whenever contentStore.tabs is non-empty, contentStore.idx is within
\* [0, len(tabs)).
C9_ContentCursorInRange ==
  contentStore.tabs # <<>> =>
    contentStore.idx \in 0..(Len(contentStore.tabs) - 1)

\* ----------------------------------------------------------------- C10
\* C10: setActiveContentQueryTabData(d) changes only the tab at
\* contentStore.idx; the other tabs, the length and order of the tabs, the
\* cursor and the connection store are unchanged.
C10_SetDataTouchesActiveOnly ==
  [][\A data \in QueryTabData :
       (last'.op = "setActiveContentQueryTabData" /\ setActiveContentQueryTabData(data)) =>
         /\ Len(contentStore'.tabs) = Len(contentStore.tabs)
         /\ \A i \in 1..Len(contentStore.tabs) :
              i - 1 # contentStore.idx => contentStore'.tabs[i] = contentStore.tabs[i]
         /\ contentStore'.idx = contentStore.idx
         /\ connectionStore' = connectionStore]_vars

\* the data of the second of two restored tabs was replaced
C10_Witness ==
  /\ last = [op |-> "setActiveContentQueryTabData", eff |-> TRUE]
  /\ Len(contentStore.tabs) = 2
  /\ contentStore.idx = 1
  /\ contentStore.tabs[1].data # contentStore.tabs[2].data

C12_ShapeMatchesKey ==
  \A i \in 1..Len(contentStore.tabs) :
    LET t == contentStore.tabs[i] IN
      /\ t.key = ContentComponent.QueryTab <=>
            DOMAIN t.data = {"query", "results"}
      /\ t.key = ContentComponent.TableStructureTab <=>
            DOMAIN t.data = {"table", "structure", "indices", "foreignKeys", "triggers"}

\* ----------------------------------------------------------------- C13
\* C13: when there is no active content tab (no tabs, or the cursor out of
\* range), setActiveContentQueryTabData, setActiveContentQueryTabMessage and
\* resetActiveContentQueryTabMessage each complete and leave both stores
\* unchanged.
C13_NoActiveTabNoOp ==
  [][(/\ getActiveContentTab = Undefined
      /\ last'.op \in {"setActiveContentQueryTabData",
                       "setActiveContentQueryTabMessage",
                       "resetActiveContentQueryTabMessage"}
      /\ ContentOps) =>
        /\ ~last'.eff
        /\ UNCHANGED storeVars]_vars

\* an operation was called with tabs present and the cursor past the last one
C13_Witness ==
  /\ last.op \in {"setActiveContentQueryTabMessage",
                  "resetActiveContentQueryTabMessage"}
  /\ ~last.eff
  /\ contentStore.tabs # <<>>
  /\ contentStore.idx >= Len(contentStore.tabs)
  /\ getActiveContentTab = Undefined

\* ----------------------------------------------------------------- C14
\* C14: addTab(t) when a tab with t.id is already there leaves
\* connectionStore.tabs, connectionStore.idx and contentStore unchanged and
\* schedules no persistence write.
C14_AddExistingIsNoOp ==
  [][\A tab \in ConnectionTab :
       (/\ last'.op = "addTab"
        /\ addTab(tab)
        /\ FindTab(connectionStore.tabs, tab)) =>
         /\ UNCHANGED storeVars
         /\ UNCHANGED <<timer, calls, atCall, writers, blob>>]_vars

\* addTab was called for a restored tab that is not the selected one, with
\* restored content tabs and no write pending
C14_Witness ==
  /\ last = [op |-> "addTab", eff |-> FALSE]
  /\ Len(connectionStore.tabs) = 2
  /\ connectionStore.idx \in {0, 1}
  /\ contentStore.tabs # <<NEW_QUERY_TAB>>
  /\ contentStore.tabs # <<>>
  /\ timer = "idle"

C16_ClearErasesBlobOnly ==
  [][(last'.op = "clearStore" /\ clearStore) =>
       /\ \A k \in DOMAIN blob' : blob'[k] = Null
       /\ UNCHANGED storeVars]_vars

\* clearStore ran between the two sets of a write, after the connection tabs
\* had been stored, with a connection tab in memory
C16_Witness ==
  /\ last.op = "clearStore"
  /\ Len(writers) = 1
  /\ writers[1].pc = "setContent"
  /\ Len(connectionStore.tabs) = 1
  /\ contentStore.tabs # <<>>

\* ----------------------------------------------------------------- C17
\* C17: during hydration the init_connection calls run one at a time in save
\* order: a call is pending only for the saved tab right after those already
\* resolved, so the call for tab k+1 does not start before the call for tab
\* k has resolved and at most one call is in flight.
C17_SequentialInvokes ==
  /\ Cardinality(inflight) <= 1
  /\ \A p \in inflight : p = hk + 1 /\ hpc = "fold"

\* the call for the second saved tab is pending after the first one failed
C17_Witness ==
  /\ inflight = {2}
  /\ hk = 1
  /\ failed = {1}
  /\ last.op = "hydrateInvokeStart"

C19_AddTabFreshContent ==
  last = [op |-> "addTab", eff |-> TRUE] =>
    /\ contentStore.tabs = <<NEW_QUERY_TAB>>
    /\ getActiveContentTab = NEW_QUERY_TAB

\* ----------------------------------------------------------------- C20
\* C20: in every state 0 <= connectionStore.idx <= len(connectionStore.tabs),
\* so getActiveConnection() is undefined only when idx is 0.
C20_ConnectionCursorInRange ==
  /\ connectionStore.idx \in 0..Len(connectionStore.tabs)
  /\ getActiveConnection = Undefined => connectionStore.idx = 0

\* ----------------------------------------------------------------- C21
\* C21: a connection tab that is in connectionStore.tabs stays there in
\* every step that is not a removeTab of its id; a tab added while hydration
\* awaits its init_connection calls is still there when hydration completes.
C21_AddedTabStays ==
  [][\A i \in 1..Len(connectionStore.tabs) :
       \/ \E j \in 1..Len(connectionStore'.tabs) :
            connectionStore'.tabs[j] = connectionStore.tabs[i]
       \/ /\ last'.op = "removeTab"
          /\ removeTab(connectionStore.tabs[i].id)]_vars

\* ----------------------------------------------------------------- C22
\* C22: once clearStore has completed, the blob store stays empty until the
\* next operation that changes a store; a write that was pending when
\* clearStore ran does not put "_conn_tabs" or "_content_tabs" back.
C22_ClearedStaysEmpty ==
  cleared => \A k \in DOMAIN blob : blob[k] = Null

\* ----------------------------------------------------------------- C23
\* C23: the two values a write stores are the serializations of
\* connectionStore and contentStore as they were together at one moment: the
\* content payload of the second store.set is a content store that stood
\* beside the connection store the first store.set serialized.
C23_WriteStoresOneMoment ==
  \A w \in 1..Len(writers) :
    writers[w].pc = "setContent" => writers[w].payload \in writers[w].seen
====
